---- MODULE Spec2Model ----
(***************************************************************************)
(* A model of src/main.py: the resume store endpoints, the three           *)
(* generators that call the generative model (extract_resume_info,         *)
(* generate_mcqs, generate_question) and the fence-stripping and JSON      *)
(* parsing step they share.                                                *)
(*                                                                         *)
(* Python text is a sequence of characters (one-character strings, and BT  *)
(* for the backtick), so that str.strip,                                   *)
(* json.loads and json.dumps are computed character by character.  Python  *)
(* values are tagged records: PNone, PBool(b), PNum(n), PStr(chars),       *)
(* PList(seq) and PDict(items), items being the sequence of <<key, value>> *)
(* pairs in insertion order.  A string that the code writes as a literal   *)
(* and that the model never scans is kept whole as PLit("...").            *)
(*                                                                         *)
(* Outside the model: MongoDB and PDF failures other than those of         *)
(* upload_resume's try block, JSON escapes, negative and fractional        *)
(* numbers (no modelled text contains a backslash, a sign or a point).     *)
(***************************************************************************)
EXTENDS Integers, Sequences, FiniteSets, TLC

VARIABLES store, req, res

vars == <<store, req, res>>

(***************************************************************************)
(* Bounds of the model and constants of the program.                       *)
(***************************************************************************)
MaxStore == 2

MaxNonzeroDraws == 1

MaxReplyLen == 3

MinSkills == 12

SampleSize == 12

EasyEnd == 4

MediumEnd == 8

(***************************************************************************)
(* Python values.                                                          *)
(***************************************************************************)
PNone == [t |-> "null"]

PBool(b) == [t |-> "bool", b |-> b]

PNum(n) == [t |-> "num", n |-> n]

PStr(s) == [t |-> "str", s |-> s]

PList(l) == [t |-> "list", l |-> l]

PDict(items) == [t |-> "dict", items |-> items]

PLit(m) == [t |-> "lit", m |-> m]

\* dict.get(key, default)
RECURSIVE ItemsGet(_, _, _)
ItemsGet(items, key, default) ==
    IF items = <<>> THEN default
    ELSE IF Head(items)[1] = key THEN Head(items)[2]
    ELSE ItemsGet(Tail(items), key, default)

\* d[key] = value: a key already present keeps its position
ItemsSet(items, key, value) ==
    IF \E i \in 1..Len(items) : items[i][1] = key
    THEN [i \in 1..Len(items) |->
            IF items[i][1] = key THEN <<key, value>> ELSE items[i]]
    ELSE Append(items, <<key, value>>)

\* the keys the code reads and writes
K_Name == <<"N", "a", "m", "e">>

K_Skills == <<"S", "k", "i", "l", "l", "s">>

K_Projects == <<"P", "r", "o", "j", "e", "c", "t", "s">>

K_Experience == <<"E", "x", "p", "e", "r", "i", "e", "n", "c", "e">>

K_error == <<"e", "r", "r", "o", "r">>

K_raw_response == <<"r", "a", "w", "_", "r", "e", "s", "p", "o", "n", "s", "e">>

K_message == <<"m", "e", "s", "s", "a", "g", "e">>

K_question == <<"q", "u", "e", "s", "t", "i", "o", "n">>

K_mcqs == <<"m", "c", "q", "s">>

K_resume == <<"r", "e", "s", "u", "m", "e">>

K_resumes == <<"r", "e", "s", "u", "m", "e", "s">>

K_extracted_info == <<"e", "x", "t", "r", "a", "c", "t", "e", "d", "_", "i", "n", "f", "o">>

K_id == <<"i", "d">>

K__id == <<"_", "i", "d">>

K_filename == <<"f", "i", "l", "e", "n", "a", "m", "e">>

K_text == <<"t", "e", "x", "t">>

K_fid == <<"f", "i", "d">>

(***************************************************************************)
(* str.strip                                                               *)
(***************************************************************************)
\* the backtick character U+0060, which a TLA+ string cannot hold
BT == "BACKTICK"

\* the characters str.strip() removes when it is given no argument
PY_WS == {" ", "\n", "\t", "\r"}

\* s.strip(chars): every leading and trailing character that is in chars
py_strip(s, chars) ==
    LET keep == {i \in 1..Len(s) : s[i] \notin chars}
    IN  IF keep = {} THEN <<>>
        ELSE LET lo == CHOOSE i \in keep : \A j \in keep : i <= j
                 hi == CHOOSE i \in keep : \A j \in keep : j <= i
             IN  SubSeq(s, lo, hi)

\* the characters of the first fence argument: backtick, j, s, o, n
FENCE_JSON_CHARS == {BT, "j", "s", "o", "n"}

\* the characters of the second fence argument: backtick
FENCE_CHARS == {BT}

\* response.text.strip(), then .strip(json fence), then .strip(fence)
clean_response(text) ==
    py_strip(py_strip(py_strip(text, PY_WS), FENCE_JSON_CHARS), FENCE_CHARS)

(***************************************************************************)
(* json.loads                                                              *)
(***************************************************************************)
JSON_WS == {" ", "\n", "\t", "\r"}

DIGITS == <<"0", "1", "2", "3", "4", "5", "6", "7", "8", "9">>

IsDigit(c) == \E d \in 1..10 : DIGITS[d] = c

DigitVal(c) == (CHOOSE d \in 1..10 : DIGITS[d] = c) - 1

PFail == [ok |-> FALSE]

POk(v, next) == [ok |-> TRUE, v |-> v, next |-> next]

\* the first position at or after i that holds no JSON whitespace
SkipWs(t, i) ==
    CHOOSE j \in i..(Len(t) + 1) :
        /\ \A k \in i..(j - 1) : t[k] \in JSON_WS
        /\ (j = Len(t) + 1 \/ t[j] \notin JSON_WS)

StartsWith(t, i, lit) ==
    /\ i + Len(lit) - 1 <= Len(t)
    /\ SubSeq(t, i, i + Len(lit) - 1) = lit

\* a string that starts at the quote t[i]; control characters end the parse
ParseString(t, i) ==
    LET close == {j \in (i + 1)..Len(t) : t[j] = "\""}
    IN  IF close = {} THEN PFail
        ELSE LET j == CHOOSE c \in close : \A d \in close : c <= d
                 body == SubSeq(t, i + 1, j - 1)
             IN  IF \E k \in 1..Len(body) : body[k] \in {"\n", "\t", "\r", "\\"}
                 THEN PFail
                 ELSE POk(PStr(body), j + 1)

RECURSIVE NumValue(_)
NumValue(ds) ==
    IF ds = <<>> THEN 0
    ELSE 10 * NumValue(SubSeq(ds, 1, Len(ds) - 1)) + DigitVal(ds[Len(ds)])

\* 0 | [1-9][0-9]*
ParseNumber(t, i) ==
    IF t[i] = "0" THEN POk(PNum(0), i + 1)
    ELSE LET end == CHOOSE j \in i..Len(t) :
                        /\ \A k \in i..j : IsDigit(t[k])
                        /\ (j = Len(t) \/ ~IsDigit(t[j + 1]))
         IN  POk(PNum(NumValue(SubSeq(t, i, end))), end + 1)

RECURSIVE ParseValue(_, _)
RECURSIVE ParseElements(_, _, _)
RECURSIVE ParseMembers(_, _, _)

\* scan_once(s, idx)
ParseValue(t, i) ==
    IF i > Len(t) THEN PFail
    ELSE IF t[i] = "\"" THEN ParseString(t, i)
    ELSE IF t[i] = "{" THEN
        LET j == SkipWs(t, i + 1)
        IN  IF j > Len(t) THEN PFail
            ELSE IF t[j] = "}" THEN POk(PDict(<<>>), j + 1)
            ELSE IF t[j] = "\"" THEN ParseMembers(t, j, <<>>)
            ELSE PFail
    ELSE IF t[i] = "[" THEN
        LET j == SkipWs(t, i + 1)
        IN  IF j > Len(t) THEN PFail
            ELSE IF t[j] = "]" THEN POk(PList(<<>>), j + 1)
            ELSE ParseElements(t, j, <<>>)
    ELSE IF StartsWith(t, i, <<"n", "u", "l", "l">>) THEN POk(PNone, i + 4)
    ELSE IF StartsWith(t, i, <<"t", "r", "u", "e">>) THEN POk(PBool(TRUE), i + 4)
    ELSE IF StartsWith(t, i, <<"f", "a", "l", "s", "e">>) THEN POk(PBool(FALSE), i + 5)
    ELSE IF IsDigit(t[i]) THEN ParseNumber(t, i)
    ELSE PFail

\* JSONArray: the elements from position i on, acc being those already read
ParseElements(t, i, acc) ==
    LET e == ParseValue(t, i)
    IN  IF ~e.ok THEN PFail
        ELSE LET j == SkipWs(t, e.next)
                 got == Append(acc, e.v)
             IN  IF j > Len(t) THEN PFail
                 ELSE IF t[j] = "]" THEN POk(PList(got), j + 1)
                 ELSE IF t[j] = "," THEN ParseElements(t, SkipWs(t, j + 1), got)
                 ELSE PFail

\* JSONObject: the members from the quote at position i on
ParseMembers(t, i, acc) ==
    LET k == ParseString(t, i)
    IN  IF ~k.ok THEN PFail
        ELSE LET c == SkipWs(t, k.next)
             IN  IF c > Len(t) \/ t[c] # ":" THEN PFail
                 ELSE LET e == ParseValue(t, SkipWs(t, c + 1))
                      IN  IF ~e.ok THEN PFail
                          ELSE LET j == SkipWs(t, e.next)
                                   got == ItemsSet(acc, k.v.s, e.v)
                               IN  IF j > Len(t) THEN PFail
                                   ELSE IF t[j] = "}" THEN POk(PDict(got), j + 1)
                                   ELSE IF t[j] = "," THEN
                                       LET n == SkipWs(t, j + 1)
                                       IN  IF n > Len(t) \/ t[n] # "\"" THEN PFail
                                           ELSE ParseMembers(t, n, got)
                                   ELSE PFail

\* json.loads(text): [ok |-> TRUE, v |-> value], or [ok |-> FALSE] for JSONDecodeError
json_loads(text) ==
    LET r == ParseValue(text, SkipWs(text, 1))
    IN  IF ~r.ok THEN [ok |-> FALSE]
        ELSE IF SkipWs(text, r.next) # Len(text) + 1 THEN [ok |-> FALSE]
        ELSE [ok |-> TRUE, v |-> r.v]

(***************************************************************************)
(* json.dumps and str.join                                                 *)
(***************************************************************************)
RECURSIVE NumText(_)
NumText(n) ==
    IF n < 10 THEN <<DIGITS[n + 1]>>
    ELSE NumText(n \div 10) \o <<DIGITS[(n % 10) + 1]>>

RECURSIVE json_dumps(_)
RECURSIVE DumpElements(_)
RECURSIVE DumpMembers(_)

\* json.dumps(v) with the default separators ", " and ": "
json_dumps(v) ==
    IF v.t = "null" THEN <<"n", "u", "l", "l">>
    ELSE IF v.t = "bool" THEN
        IF v.b THEN <<"t", "r", "u", "e">> ELSE <<"f", "a", "l", "s", "e">>
    ELSE IF v.t = "num" THEN NumText(v.n)
    ELSE IF v.t = "str" THEN <<"\"">> \o v.s \o <<"\"">>
    ELSE IF v.t = "list" THEN <<"[">> \o DumpElements(v.l) \o <<"]">>
    ELSE <<"{">> \o DumpMembers(v.items) \o <<"}">>

DumpElements(l) ==
    IF l = <<>> THEN <<>>
    ELSE IF Len(l) = 1 THEN json_dumps(l[1])
    ELSE json_dumps(l[1]) \o <<",", " ">> \o DumpElements(Tail(l))

DumpMembers(items) ==
    IF items = <<>> THEN <<>>
    ELSE LET one == <<"\"">> \o items[1][1] \o <<"\"", ":", " ">> \o json_dumps(items[1][2])
         IN  IF Len(items) = 1 THEN one
             ELSE one \o <<",", " ">> \o DumpMembers(Tail(items))

\* ', '.join(l) for a list of str
RECURSIVE JoinText(_)
JoinText(l) ==
    IF l = <<>> THEN <<>>
    ELSE IF Len(l) = 1 THEN l[1].s
    ELSE l[1].s \o <<",", " ">> \o JoinText(Tail(l))

\* ', '.join(l): TypeError when an entry is not a str
py_join(l) ==
    IF \E i \in 1..Len(l) : l[i].t # "str"
    THEN [raised |-> TRUE]
    ELSE [raised |-> FALSE, text |-> JoinText(l)]

(***************************************************************************)
(* Outcomes of a call: a returned value or a raised exception, the number  *)
(* of model.generate_content invocations made, and what the prompt named.  *)
(***************************************************************************)
NoPrompt == [fn |-> "none"]

Ret(v, calls, prompt) ==
    [raised |-> FALSE, exc |-> "", value |-> v, calls |-> calls, prompt |-> prompt]

Raise(e, calls, prompt) ==
    [raised |-> TRUE, exc |-> e, value |-> PNone, calls |-> calls, prompt |-> prompt]

\* what model.generate_content(prompt) / response.text does: it raises, or gives a text
GRaise == [kind |-> "raise"]

GText(t) == [kind |-> "text", text |-> t]

ErrorDict(m) == PDict(<<<<K_error, PLit(m)>>>>)

(***************************************************************************)
(* extract_resume_info(text)                                               *)
(***************************************************************************)
extract_resume_info(text, g) ==
    LET prompt == [fn |-> "extract", text |-> text]
    IN  IF g.kind = "raise" THEN Raise("UpstreamError", 1, prompt)
        ELSE LET cleaned_response == clean_response(g.text)
                 parsed == json_loads(cleaned_response)
             IN  IF parsed.ok THEN Ret(parsed.v, 1, prompt)
                 ELSE Ret(PDict(<<<<K_error, PLit("Invalid JSON response from Gemini")>>,
                                  <<K_raw_response, PStr(cleaned_response)>>>>),
                          1, prompt)

(***************************************************************************)
(* generate_mcqs(skills)                                                   *)
(***************************************************************************)
HasLen(v) == v.t \in {"str", "list", "dict"}

\* len(v)
PyLen(v) ==
    IF v.t = "str" THEN Len(v.s)
    ELSE IF v.t = "list" THEN Len(v.l)
    ELSE Len(v.items)

\* the elements of a sequence value: the entries of a list, the characters of a str
SeqElems(v) ==
    IF v.t = "list" THEN v.l
    ELSE [i \in 1..Len(v.s) |-> PStr(<<v.s[i]>>)]

\* the draws randbelow may return while one sample is taken from n elements:
\* d[i] < n - (i - 1), and at most k of them are not 0
RECURSIVE DrawVectors(_, _)
DrawVectors(n, k) ==
    IF k = 0 THEN {[i \in 1..SampleSize |-> 0]}
    ELSE LET less == DrawVectors(n, k - 1)
         IN  less \cup {[d EXCEPT ![p[1]] = p[2]] :
                          d \in less,
                          p \in {q \in (1..SampleSize) \X (1..n) : q[2] <= n - q[1]}}

\* random.sample(population, SampleSize), the pool algorithm:
\*   j = randbelow(n - i); result[i] = pool[j]; pool[j] = pool[n - i - 1]
RECURSIVE SampleSteps(_, _, _, _)
SampleSteps(pool, d, i, result) ==
    IF i > SampleSize THEN result
    ELSE SampleSteps([pool EXCEPT ![d[i] + 1] = pool[Len(pool) - i + 1]],
                     d, i + 1, Append(result, pool[d[i] + 1]))

\* a sample that puts each pick back: pool[j] is never overwritten
random_sample_with_replacement(population, d) ==
    [i \in 1..SampleSize |-> population[d[i] + 1]]

random_sample(population, d) == SampleSteps(population, d, 1, <<>>)

\* selected_skills[:4], [4:8], [8:]
easy_of(selected_skills) == SubSeq(selected_skills, 1, EasyEnd)

medium_of(selected_skills) == SubSeq(selected_skills, EasyEnd + 1, MediumEnd)

hard_of(selected_skills) == SubSeq(selected_skills, MediumEnd + 1, Len(selected_skills))

\* the length check one too low: len(skills) < 11
not_enough_skills_off_by_one(skills) == PyLen(skills) < MinSkills - 1

\* if len(skills) < 12
not_enough_skills(skills) == PyLen(skills) < MinSkills

generate_mcqs(skills, d, g) ==
    IF ~HasLen(skills) THEN Raise("TypeError", 0, NoPrompt)
    ELSE IF not_enough_skills(skills)
    THEN Ret(ErrorDict("Not enough skills available to generate MCQs"), 0, NoPrompt)
    ELSE IF skills.t = "dict" THEN Raise("TypeError", 0, NoPrompt)
    ELSE IF PyLen(skills) < SampleSize THEN Raise("ValueError", 0, NoPrompt)
    ELSE LET selected_skills == random_sample(SeqElems(skills), d)
             easy_skills == easy_of(selected_skills)
             medium_skills == medium_of(selected_skills)
             hard_skills == hard_of(selected_skills)
             prompt == [fn |-> "mcqs", easy |-> easy_skills,
                        medium |-> medium_skills, hard |-> hard_skills]
         IN  IF py_join(easy_skills).raised \/ py_join(medium_skills).raised
                    \/ py_join(hard_skills).raised
             THEN Raise("TypeError", 0, NoPrompt)
             ELSE IF g.kind = "raise" THEN Raise("UpstreamError", 1, prompt)
             ELSE LET cleaned_response == clean_response(g.text)
                      parsed == json_loads(cleaned_response)
                  IN  IF parsed.ok THEN Ret(parsed.v, 1, prompt)
                      ELSE Ret(PDict(<<<<K_error, PLit("Invalid JSON from Gemini")>>,
                                       <<K_raw_response, PStr(cleaned_response)>>>>),
                               1, prompt)

(***************************************************************************)
(* generate_question(projects, experience, name, candidate_response)       *)
(***************************************************************************)
\* bool(v)
Truthy(v) ==
    IF v.t = "null" THEN FALSE
    ELSE IF v.t = "bool" THEN v.b
    ELSE IF v.t = "num" THEN v.n # 0
    ELSE IF v.t = "str" THEN v.s # <<>>
    ELSE IF v.t = "list" THEN v.l # <<>>
    ELSE IF v.t = "dict" THEN v.items # <<>>
    ELSE TRUE

\* ', '.join(xs) if xs else '...': the listing the prompt names
Listing(xs, default) ==
    IF ~Truthy(xs) THEN [raised |-> FALSE, text |-> default]
    ELSE IF xs.t = "list" THEN py_join(xs.l)
    ELSE IF xs.t = "str" THEN py_join(SeqElems(xs))
    ELSE IF xs.t = "dict" THEN py_join([i \in 1..Len(xs.items) |-> PStr(xs.items[i][1])])
    ELSE [raised |-> TRUE]

VARIOUS_FIELDS == <<"v", "a", "r", "i", "o", "u", "s", " ", "f", "i", "e", "l", "d", "s">>

VARIOUS_TECHNOLOGIES ==
    <<"v", "a", "r", "i", "o", "u", "s", " ", "t", "e", "c", "h", "n", "o", "l", "o", "g", "i", "e", "s">>

generate_question(projects, experience, name, candidate_response, g) ==
    LET context == IF Truthy(candidate_response) THEN candidate_response ELSE PStr(<<>>)
        exp_listing == Listing(experience, VARIOUS_FIELDS)
        pro_listing == Listing(projects, VARIOUS_TECHNOLOGIES)
    IN  IF exp_listing.raised \/ pro_listing.raised THEN Raise("TypeError", 0, NoPrompt)
        ELSE LET prompt == [fn |-> "question", name |-> name,
                            experience |-> exp_listing.text,
                            projects |-> pro_listing.text, context |-> context]
             IN  IF g.kind = "raise" THEN Raise("UpstreamError", 1, prompt)
                 ELSE LET cleaned_response == clean_response(g.text)
                          parsed == json_loads(cleaned_response)
                      IN  IF parsed.ok THEN Ret(parsed.v, 1, prompt)
                          ELSE Ret(ErrorDict("Invalid JSON from Gemini"), 1, prompt)

(***************************************************************************)
(* The resume collection and the endpoints.                                *)
(*                                                                         *)
(* A stored document is [id, filename, text, fid]: id is the ObjectId that *)
(* insert_one generates (the n-th insert gets n), text is what              *)
(* extract_resume_info returned.  Each handler reaches the collection at   *)
(* most once, so a request is one atomic step.                             *)
(***************************************************************************)
POid(n) == [t |-> "oid", n |-> n]

\* find_one found nothing
NoRecord == [id |-> 0, filename |-> "", text |-> PNone, fid |-> ""]

\* resume_collection.find_one({"fid": fid}): a matching document, or none.
\* No sort is given, so any of several matches may come back.
find_one_fid(st, fid) ==
    IF \E i \in 1..Len(st) : st[i].fid = fid
    THEN {st[i] : i \in {k \in 1..Len(st) : st[k].fid = fid}}
    ELSE {NoRecord}

\* resume_collection.find_one({"_id": obj_id})
find_one_id(st, n) ==
    IF n \in 1..Len(st) THEN st[n] ELSE NoRecord

\* the document as the handlers return it, resume["_id"] = str(resume["_id"])
ResumeDoc(r) ==
    PDict(<<<<K__id, POid(r.id)>>, <<K_filename, PLit(r.filename)>>,
            <<K_text, r.text>>, <<K_fid, PLit(r.fid)>>>>)

home == Ret(PDict(<<<<K_message, PLit("AI Hiring Platform Backend is Running!")>>>>), 0, NoPrompt)

\* an upload that inserts before it looks at the extraction: a failed model call
\* leaves a document without its text behind
upload_resume_insert_first(st, file, fid, ex) ==
    IF file.status # "ok"
    THEN [out |-> Ret(ErrorDict(file.status), 0, NoPrompt), store |-> st]
    ELSE LET resume_data == [id |-> Len(st) + 1, filename |-> file.filename,
                             text |-> ex.value, fid |-> fid]
         IN  IF ex.raised
             THEN [out |-> Ret(ErrorDict(ex.exc), ex.calls, ex.prompt),
                   store |-> Append(st, resume_data)]
             ELSE [out |-> Ret(PDict(<<<<K_message, PLit("Resume stored successfully")>>,
                                       <<K_id, POid(resume_data.id)>>>>),
                              ex.calls, ex.prompt),
                   store |-> Append(st, resume_data)]

\* upload_resume(file, fid); ex is the outcome of extract_resume_info(text)
upload_resume(st, file, fid, ex) ==
    IF file.status # "ok"
    THEN [out |-> Ret(ErrorDict(file.status), 0, NoPrompt), store |-> st]
    ELSE IF ex.raised
    THEN [out |-> Ret(ErrorDict(ex.exc), ex.calls, ex.prompt), store |-> st]
    ELSE LET resume_data == [id |-> Len(st) + 1, filename |-> file.filename,
                             text |-> ex.value, fid |-> fid]
         IN  [out |-> Ret(PDict(<<<<K_message, PLit("Resume stored successfully")>>,
                                   <<K_id, POid(resume_data.id)>>>>),
                          ex.calls, ex.prompt),
              store |-> Append(st, resume_data)]

\* get_resume(fid); resume is what find_one returned
get_resume(resume) ==
    IF resume = NoRecord THEN Ret(ErrorDict("Resume not found"), 0, NoPrompt)
    ELSE Ret(PDict(<<<<K_resume, ResumeDoc(resume)>>>>), 0, NoPrompt)

\* extract_info(resume_id); rid.valid says whether ObjectId(resume_id) accepts the text
extract_info(st, rid, g) ==
    IF ~rid.valid THEN Ret(ErrorDict("InvalidId"), 0, NoPrompt)
    ELSE LET resume == find_one_id(st, rid.n)
         IN  IF resume = NoRecord THEN Ret(ErrorDict("Resume not found"), 0, NoPrompt)
             ELSE LET ex == extract_resume_info(resume.text, g)
                  IN  IF ex.raised THEN Ret(ErrorDict(ex.exc), ex.calls, ex.prompt)
                      ELSE Ret(PDict(<<<<K_extracted_info, ex.value>>>>), ex.calls, ex.prompt)

\* generate_resume_mcqs(fid)
generate_resume_mcqs(resume, d, g) ==
    IF resume = NoRecord THEN Ret(ErrorDict("Resume not found"), 0, NoPrompt)
    ELSE IF resume.text.t # "dict" THEN Raise("AttributeError", 0, NoPrompt)
    ELSE LET skills == ItemsGet(resume.text.items, K_Skills, PList(<<>>))
         IN  IF ~Truthy(skills)
             THEN Ret(ErrorDict("No skills found in resume"), 0, NoPrompt)
             ELSE LET mcqs == generate_mcqs(skills, d, g)
                  IN  IF mcqs.raised THEN mcqs
                      ELSE Ret(PDict(<<<<K_mcqs, mcqs.value>>>>), mcqs.calls, mcqs.prompt)

\* for x in v: a list gives its entries, a str its characters, a dict its keys
Iterable(v) == v.t \in {"list", "str", "dict"}

PyIter(v) ==
    IF v.t = "list" THEN v.l
    ELSE IF v.t = "str" THEN SeqElems(v)
    ELSE [i \in 1..Len(v.items) |-> PStr(v.items[i][1])]

\* [x if isinstance(x, str) else json.dumps(x) for x in xs]
Stringified(xs) ==
    [i \in 1..Len(xs) |-> IF xs[i].t = "str" THEN xs[i] ELSE PStr(json_dumps(xs[i]))]

UPPER == <<"A", "B", "C", "D", "E", "F", "G", "H", "I", "J", "K", "L", "M",
           "N", "O", "P", "Q", "R", "S", "T", "U", "V", "W", "X", "Y", "Z">>

LOWER == <<"a", "b", "c", "d", "e", "f", "g", "h", "i", "j", "k", "l", "m",
           "n", "o", "p", "q", "r", "s", "t", "u", "v", "w", "x", "y", "z">>

\* s.lower()
py_lower(s) ==
    [i \in 1..Len(s) |->
        IF \E k \in 1..26 : UPPER[k] = s[i]
        THEN LOWER[CHOOSE k \in 1..26 : UPPER[k] = s[i]]
        ELSE s[i]]

EXIT == <<"e", "x", "i", "t">>

\* candidate_response and candidate_response.lower() == "exit"
says_exit(candidate_response) ==
    Truthy(candidate_response) /\ py_lower(candidate_response.s) = EXIT

\* interview(fid, candidate_response)
interview(resume, candidate_response, g) ==
    IF resume = NoRecord THEN Raise("HTTPException", 0, NoPrompt)
    ELSE IF resume.text.t # "dict" THEN Raise("AttributeError", 0, NoPrompt)
    ELSE LET projects0 == ItemsGet(resume.text.items, K_Projects, PList(<<>>))
             experience0 == ItemsGet(resume.text.items, K_Experience, PList(<<>>))
             name == ItemsGet(resume.text.items, K_Name, PList(<<>>))
         IN  IF ~Iterable(experience0) \/ ~Iterable(projects0)
             THEN Raise("TypeError", 0, NoPrompt)
             ELSE LET experience == PList(Stringified(PyIter(experience0)))
                      projects == PList(Stringified(PyIter(projects0)))
                  IN  IF says_exit(candidate_response)
                      THEN Ret(PDict(<<<<K_message, PLit("Interview ended.")>>>>), 0, NoPrompt)
                      ELSE generate_question(projects, experience, name,
                                             candidate_response, g)

\* get_all_resumes()
get_all_resumes(st) ==
    Ret(PDict(<<<<K_resumes, PList([i \in 1..Len(st) |-> ResumeDoc(st[i])])>>>>), 0, NoPrompt)

(***************************************************************************)
(* The inputs the model draws.                                             *)
(***************************************************************************)
FENCE == <<BT, BT, BT>>

FENCE_JSON == <<BT, BT, BT, "j", "s", "o", "n">>

NL == <<"\n">>

Wraps == {"none", "json_nl", "json", "plain_nl", "json_ws"}

\* a reply text: the JSON text t bare, or inside one Markdown fence
Wrap(w, t) ==
    IF w = "json_nl" THEN FENCE_JSON \o NL \o t \o NL \o FENCE
    ELSE IF w = "json" THEN FENCE_JSON \o t \o FENCE
    ELSE IF w = "plain_nl" THEN FENCE \o NL \o t \o NL \o FENCE
    ELSE IF w = "json_ws" THEN <<" ">> \o FENCE_JSON \o NL \o t \o NL \o FENCE \o NL
    ELSE t

NotJsonAtAll ==
    <<"n", "o", "t", " ", "j", "s", "o", "n", " ", "a", "t", " ", "a", "l", "l">>

SkillName(k) == PStr(<<"s">> \o NumText(k))

Skills(n) == PList([k \in 1..n |-> SkillName(k)])

\* every recognised key, with structured Projects and Experience entries
InfoFull ==
    PDict(<<<<K_Name, PStr(<<"A", "l">>)>>,
            <<K_Skills, Skills(12)>>,
            <<K_Projects, PList(<<PStr(<<"p">>), PDict(<<<<<<"t">>, PStr(<<"x">>)>>>>)>>)>>,
            <<K_Experience, PList(<<PDict(<<<<<<"r">>, PNum(1)>>>>)>>)>>>>)

\* two skills and no other key
InfoShort == PDict(<<<<K_Skills, Skills(2)>>>>)

InfoProjectsNull == PDict(<<<<K_Projects, PNone>>>>)

\* a sequence that is no mapping
InfoList == PList(<<PStr(<<"x">>)>>)

\* twelve Skills entries, one of them a number
InfoSkillsMixed ==
    PDict(<<<<K_Skills, PList([k \in 1..12 |-> IF k = 1 THEN PNum(7) ELSE SkillName(k)])>>>>)

\* Skills and Experience are mappings, Projects is a string
InfoOdd ==
    PDict(<<<<K_Skills, PDict(<<<<<<"a">>, PNum(1)>>>>)>>,
            <<K_Projects, PStr(<<"a", "b">>)>>,
            <<K_Experience, PDict(<<<<<<"k">>, PStr(<<"v">>)>>>>)>>>>)

InfoShapes ==
    {InfoFull, InfoShort, InfoProjectsNull, PNone, InfoList, InfoSkillsMixed, InfoOdd}

\* the replies to the extraction prompt
ExtractReplies ==
    {GText(Wrap("json_nl", json_dumps(v))) : v \in InfoShapes}
        \cup {GText(NotJsonAtAll), GRaise}

QuizValue == PDict(<<<<<<"e", "a", "s", "y">>, PList(<<>>)>>>>)

\* the replies to the quiz prompt
McqReplies == {GText(Wrap("json_nl", json_dumps(QuizValue))), GText(NotJsonAtAll), GRaise}

TurnValue == PDict(<<<<K_question, PStr(<<"q">>)>>>>)

\* the replies to the interview prompt
TurnReplies == {GText(Wrap("json_nl", json_dumps(TurnValue))), GText(NotJsonAtAll), GRaise}

\* the replies extract_info gets
ReExtractReplies == {GText(Wrap("json_nl", json_dumps(InfoShort))), GText(NotJsonAtAll), GRaise}

JsonValues ==
    {PNone, PNum(1), PBool(TRUE), PStr(<<"o", "n">>), PList(<<>>), TurnValue, InfoShort}

JsonTexts == {json_dumps(v) : v \in JsonValues}

ShortAlphabet == {BT, "n", "1", "\n"}

\* every text of at most MaxReplyLen characters of ShortAlphabet
ShortTexts == UNION {[1..k -> ShortAlphabet] : k \in 0..MaxReplyLen}

\* the replies the generators get when they are called on their own
GenReplies ==
    {GText(Wrap(w, t)) : w \in Wraps, t \in JsonTexts}
        \cup {GText(t) : t \in ShortTexts}
        \cup {GText(NotJsonAtAll), GRaise}

ResumeText == PLit("resume text")

Files ==
    {[filename |-> "cv.pdf", status |-> "ok"],
     [filename |-> "cv.pdf", status |-> "read failed"],
     [filename |-> "cv.pdf", status |-> "not a PDF"]}

Fids == {"f1", "f2"}

\* f0 is never uploaded
FidInputs == Fids \cup {"f0"}

ResumeIds == {[valid |-> FALSE, n |-> 0]} \cup {[valid |-> TRUE, n |-> k] : k \in 1..(MaxStore + 1)}

Utterances ==
    {PNone, PStr(<<"e", "x", "i", "t">>), PStr(<<"E", "x", "i", "t">>),
     PStr(<<"E", "X", "I", "T">>), PStr(<<"h", "i">>)}

\* the skill lists generate_mcqs is called with: short ones, twelve and thirteen
\* distinct skills, and twelve distinct skills followed by the first one again
SkillInputs ==
    {Skills(0), Skills(1), Skills(11), Skills(12), Skills(13),
     PList([k \in 1..13 |-> IF k = 13 THEN SkillName(1) ELSE SkillName(k)])}

Draws(skills) ==
    IF HasLen(skills) /\ PyLen(skills) >= SampleSize
    THEN DrawVectors(PyLen(skills), MaxNonzeroDraws)
    ELSE DrawVectors(SampleSize, 0)

(***************************************************************************)
(* The outcomes of the calls whose inputs never change, tabulated once.    *)
(***************************************************************************)
ExtractOutcomes == {<<g, extract_resume_info(ResumeText, g)>> : g \in ExtractReplies}

StoredTexts == {p[2].value : p \in {q \in ExtractOutcomes : ~q[2].raised}}

\* the endpoint tells the caller nothing of the skill groups in the prompt
WithoutBands(out) == [out EXCEPT !.prompt = [fn |-> out.prompt.fn]]

StoredWith(text) == [id |-> 1, filename |-> "cv.pdf", text |-> text, fid |-> "f1"]

McqOutcomes ==
    UNION {{<<text, g, WithoutBands(generate_resume_mcqs(StoredWith(text), d, g))>> :
                g \in McqReplies,
                d \in Draws(IF text.t = "dict"
                            THEN ItemsGet(text.items, K_Skills, PList(<<>>))
                            ELSE PNone)} :
           text \in StoredTexts}

(***************************************************************************)
(* Spec: the endpoints.  A request is served in one step and its response  *)
(* is delivered before the next request is taken.                          *)
(***************************************************************************)
Idle == [op |-> "none"]

NoRes == Ret(PNone, 0, NoPrompt)

Init ==
    /\ store = <<>>
    /\ req = Idle
    /\ res = NoRes

Home ==
    /\ req = Idle
    /\ req' = [op |-> "home"]
    /\ res' = home
    /\ UNCHANGED store

UploadResume ==
    /\ req = Idle
    /\ Len(store) < MaxStore
    /\ \E file \in Files, fid \in Fids, p \in ExtractOutcomes :
        LET r == upload_resume(store, file, fid, p[2])
        IN  /\ req' = [op |-> "upload_resume", file |-> file, fid |-> fid,
                       reply |-> IF file.status = "ok" THEN p[1] ELSE GRaise]
            /\ res' = r.out
            /\ store' = r.store

GetResume ==
    /\ req = Idle
    /\ \E fid \in FidInputs :
        \E resume \in find_one_fid(store, fid) :
            /\ req' = [op |-> "get_resume", fid |-> fid]
            /\ res' = get_resume(resume)
    /\ UNCHANGED store

ExtractInfo ==
    /\ req = Idle
    /\ \E rid \in ResumeIds, g \in ReExtractReplies :
        /\ req' = [op |-> "extract_info", rid |-> rid, reply |-> g]
        /\ res' = extract_info(store, rid, g)
    /\ UNCHANGED store

GenerateResumeMcqs ==
    /\ req = Idle
    /\ \E fid \in FidInputs, g \in McqReplies :
        \E resume \in find_one_fid(store, fid) :
            /\ req' = [op |-> "generate_resume_mcqs", fid |-> fid, reply |-> g,
                       text |-> resume.text, found |-> resume # NoRecord]
            /\ IF resume = NoRecord
               THEN res' = generate_resume_mcqs(resume, [i \in 1..SampleSize |-> 0], g)
               ELSE \E p \in McqOutcomes :
                        /\ p[1] = resume.text
                        /\ p[2] = g
                        /\ res' = p[3]
    /\ UNCHANGED store

Interview ==
    /\ req = Idle
    /\ \E fid \in FidInputs, candidate_response \in Utterances, g \in TurnReplies :
        \E resume \in find_one_fid(store, fid) :
            /\ req' = [op |-> "interview", fid |-> fid,
                       candidate_response |-> candidate_response, reply |-> g,
                       text |-> resume.text, found |-> resume # NoRecord]
            /\ res' = interview(resume, candidate_response, g)
    /\ UNCHANGED store

GetAllResumes ==
    /\ req = Idle
    /\ req' = [op |-> "get_all_resumes"]
    /\ res' = get_all_resumes(store)
    /\ UNCHANGED store

\* the response reaches the caller
Deliver ==
    /\ req # Idle
    /\ req' = Idle
    /\ res' = NoRes
    /\ UNCHANGED store

Next ==
    \/ Home
    \/ UploadResume
    \/ GetResume
    \/ ExtractInfo
    \/ GenerateResumeMcqs
    \/ Interview
    \/ GetAllResumes
    \/ Deliver

Spec == Init /\ [][Next]_vars

(***************************************************************************)
(* SpecGen: the three generators called on their own.                      *)
(***************************************************************************)
CallExtractResumeInfo ==
    /\ req = Idle
    /\ \E g \in GenReplies :
        /\ req' = [op |-> "extract_resume_info", reply |-> g]
        /\ res' = extract_resume_info(ResumeText, g)
    /\ UNCHANGED store

CallGenerateMcqs ==
    /\ req = Idle
    /\ \E skills \in SkillInputs, g \in McqReplies :
        \E d \in Draws(skills) :
            /\ req' = [op |-> "generate_mcqs", skills |-> skills, reply |-> g]
            /\ res' = generate_mcqs(skills, d, g)
    /\ UNCHANGED store

ProjectInputs == {PList(<<>>), PList(<<PStr(<<"p">>), PStr(<<"q">>)>>)}

CallGenerateQuestion ==
    /\ req = Idle
    /\ \E projects \in ProjectInputs, experience \in ProjectInputs,
          candidate_response \in Utterances, g \in GenReplies :
        /\ req' = [op |-> "generate_question", projects |-> projects,
                   experience |-> experience,
                   candidate_response |-> candidate_response, reply |-> g]
        /\ res' = generate_question(projects, experience, PStr(<<"A", "l">>),
                                    candidate_response, g)
    /\ UNCHANGED store

Return ==
    /\ req # Idle
    /\ req' = Idle
    /\ res' = NoRes
    /\ UNCHANGED store

NextGen ==
    \/ CallExtractResumeInfo
    \/ CallGenerateMcqs
    \/ CallGenerateQuestion
    \/ Return

SpecGen == Init /\ [][NextGen]_vars

(***************************************************************************)
(* What the claims say, as formulas over the last request and its result.  *)
(***************************************************************************)
HasKey(v, k) == v.t = "dict" /\ \E i \in 1..Len(v.items) : v.items[i][1] = k

ValueAt(v, k) == ItemsGet(v.items, k, PNone)

\* {"error": ...}
IsFailure(v) == HasKey(v, K_error) /\ ValueAt(v, K_error).t = "lit"

Generators == {"extract_resume_info", "generate_mcqs", "generate_question"}

ExitUtterances ==
    {PStr(<<"e", "x", "i", "t">>), PStr(<<"E", "x", "i", "t">>), PStr(<<"E", "X", "I", "T">>)}

EndSentinel == PDict(<<<<K_message, PLit("Interview ended.")>>>>)

\* the text with one literal prefix / suffix taken off, when it is there
StripPrefix(s, p) ==
    IF StartsWith(s, 1, p) THEN SubSeq(s, Len(p) + 1, Len(s)) ELSE s

StripSuffix(s, p) ==
    IF Len(s) >= Len(p) /\ SubSeq(s, Len(s) - Len(p) + 1, Len(s)) = p
    THEN SubSeq(s, 1, Len(s) - Len(p))
    ELSE s

\* the reply with only the surrounding whitespace and one fence wrapping removed
OneFenceRemoved(text) ==
    LET s == py_strip(text, PY_WS)
        a == IF StartsWith(s, 1, FENCE_JSON) THEN StripPrefix(s, FENCE_JSON)
             ELSE StripPrefix(s, FENCE)
    IN  StripSuffix(a, FENCE)

FenceWraps == Wraps \ {"none"}

\* the generator of the last call, called again with another reply
SameCallWith(g) ==
    IF req.op = "extract_resume_info" THEN extract_resume_info(ResumeText, g)
    ELSE IF req.op = "generate_mcqs"
    THEN generate_mcqs(req.skills, [i \in 1..SampleSize |-> 0], g)
    ELSE generate_question(req.projects, req.experience, PStr(<<"A", "l">>),
                           req.candidate_response, g)

\* C1: an interview turn on a stored resume whose latest utterance is "exit",
\* "Exit" or "EXIT" returns {message: "Interview ended."} and calls the model
\* zero times.
C1_ExitEndsInterview ==
    (req.op = "interview" /\ req.found /\ req.candidate_response \in ExitUtterances)
        => (~res.raised /\ res.value = EndSentinel /\ res.calls = 0)

\* C2: a reply that is a JSON text inside one Markdown fence gives the same
\* result as the same JSON text without the fence, and the cleaning removes
\* nothing of the JSON text itself.
C2_FenceIsTransparent ==
    (req.op \in Generators /\ req.reply.kind = "text" /\ res.calls = 1)
        => \A t \in JsonTexts, w \in FenceWraps :
              req.reply.text = Wrap(w, t)
                  => /\ res.value = SameCallWith(GText(t)).value
                     /\ py_strip(clean_response(req.reply.text), PY_WS) = t

\* C3: when the reply is not valid JSON once whitespace and one fence are
\* removed, each generator returns a Failure whose raw response text is the
\* reply with only that removed; "not json at all" comes back verbatim.
C3_FailureCarriesRawText ==
    (req.op \in Generators /\ req.reply.kind = "text" /\ res.calls = 1
        /\ ~json_loads(OneFenceRemoved(req.reply.text)).ok)
        => /\ ~res.raised
           /\ IsFailure(res.value)
           /\ HasKey(res.value, K_raw_response)
           /\ ValueAt(res.value, K_raw_response) = PStr(OneFenceRemoved(req.reply.text))

Count(seq, x) == Cardinality({i \in 1..Len(seq) : seq[i] = x})

NoRepeats(seq) == \A i, j \in 1..Len(seq) : seq[i] = seq[j] => i = j

Disjoint(a, b) == \A i \in 1..Len(a), j \in 1..Len(b) : a[i] # b[j]

Selected(prompt) == prompt.easy \o prompt.medium \o prompt.hard

LongSkillCall ==
    req.op = "generate_mcqs" /\ req.skills.t = "list" /\ Len(req.skills.l) >= MinSkills

\* C4 as claimed: for any skill sequence of at least 12 entries the prompt names
\* 12 of them in three groups of 4, no skill twice in the sample and no skill in
\* two groups.
C4_NoSkillRepeated ==
    LongSkillCall
        => /\ res.prompt.fn = "mcqs"
           /\ Len(res.prompt.easy) = 4
           /\ Len(res.prompt.medium) = 4
           /\ Len(res.prompt.hard) = 4
           /\ \A i \in 1..12 : Count(req.skills.l, Selected(res.prompt)[i]) >= 1
           /\ NoRepeats(Selected(res.prompt))
           /\ Disjoint(res.prompt.easy, res.prompt.medium)
           /\ Disjoint(res.prompt.easy, res.prompt.hard)
           /\ Disjoint(res.prompt.medium, res.prompt.hard)

\* C4 amended: for any skill sequence of at least 12 entries the prompt names 12
\* entries of the input in three groups of 4 in sampled order, and no position
\* of the input is taken twice (a skill is named at most as often as the input
\* holds it); when the input skills are pairwise distinct, no skill is named
\* twice and no skill is in two groups.
C4_NoPositionRepeated ==
    LongSkillCall
        => /\ res.prompt.fn = "mcqs"
           /\ Len(res.prompt.easy) = 4
           /\ Len(res.prompt.medium) = 4
           /\ Len(res.prompt.hard) = 4
           /\ \A i \in 1..12 :
                 LET x == Selected(res.prompt)[i]
                 IN  /\ Count(req.skills.l, x) >= 1
                     /\ Count(Selected(res.prompt), x) <= Count(req.skills.l, x)
           /\ NoRepeats(req.skills.l)
                 => /\ NoRepeats(Selected(res.prompt))
                    /\ Disjoint(res.prompt.easy, res.prompt.medium)
                    /\ Disjoint(res.prompt.easy, res.prompt.hard)
                    /\ Disjoint(res.prompt.medium, res.prompt.hard)

\* a sample of 12 out of 13 distinct skills that does not start with the first
C4_Witness ==
    /\ LongSkillCall
    /\ Len(req.skills.l) = 13
    /\ NoRepeats(req.skills.l)
    /\ res.prompt.fn = "mcqs"
    /\ res.prompt.easy[1] # req.skills.l[1]
    /\ \E i \in 1..12 : Selected(res.prompt)[i] = req.skills.l[13]

C6_UploadIsRetrievable ==
    req.op = "get_resume"
        => \A i \in 1..Len(store) :
              store[i].fid = req.fid
                  => /\ ~res.raised
                     /\ HasKey(res.value, K_resume)
                     /\ ValueAt(ValueAt(res.value, K_resume), K_text) = store[i].text

NoMatch ==
    \/ /\ req.op \in {"get_resume", "generate_resume_mcqs", "interview"}
       /\ \A i \in 1..Len(store) : store[i].fid # req.fid
    \/ /\ req.op = "extract_info"
       /\ req.rid.valid
       /\ req.rid.n \notin 1..Len(store)

\* C7: a lookup that matches no stored record returns {error: "Resume not
\* found"}, not a hard failure, and calls the model zero times.
C7_NotFoundIsStructured ==
    NoMatch => (~res.raised /\ res.value = ErrorDict("Resume not found") /\ res.calls = 0)

\* the error payloads the endpoints render: {"error": ...} or {"mcqs": {"error": ...}}
ErrorPayload(v) ==
    \/ IsFailure(v)
    \/ HasKey(v, K_mcqs) /\ IsFailure(ValueAt(v, K_mcqs))
    \/ HasKey(v, K_extracted_info) /\ IsFailure(ValueAt(v, K_extracted_info))

\* C8: a request whose model call fails, or whose reply cannot be parsed, ends
\* with an error payload, never with an uncaught exception, after one call.
\* (An upload whose reply cannot be parsed stores the failure record, which is
\* read here as its error payload.)
C8_ModelFailureIsReturned ==
    (req.op \in {"upload_resume", "extract_info", "generate_resume_mcqs", "interview"}
        /\ res.calls >= 1
        /\ (req.reply.kind = "raise" \/ ~json_loads(clean_response(req.reply.text)).ok))
        => /\ ~res.raised
           /\ res.calls = 1
           /\ \/ ErrorPayload(res.value)
              \/ req.op = "upload_resume" /\ IsFailure(store[Len(store)].text)

Ids(st) == {st[i].id : i \in 1..Len(st)}

\* C9: the stored records change only by a successful upload-resume, which
\* appends one complete record under a fresh id; an upload that fails at the
\* file or at the model call stores nothing; nothing else touches a record.
C9_InsertOnly ==
    [][/\ store' # store
            => /\ req'.op = "upload_resume"
               /\ req'.file.status = "ok"
               /\ req'.reply.kind = "text"
               /\ ~res'.raised
               /\ HasKey(res'.value, K_id)
               /\ Len(store') = Len(store) + 1
               /\ SubSeq(store', 1, Len(store)) = store
               /\ LET r == store'[Len(store')]
                  IN  /\ r.id \notin Ids(store)
                      /\ ValueAt(res'.value, K_id) = POid(r.id)
                      /\ r.filename = req'.file.filename
                      /\ r.fid = req'.fid
                      /\ r.text = extract_resume_info(ResumeText, req'.reply).value
       /\ (req'.op = "upload_resume" /\ HasKey(res'.value, K_error)) => store' = store
       /\ (req'.op = "upload_resume" /\ HasKey(res'.value, K_id)) => store' # store
      ]_vars

\* a second upload under an external id that is already stored, the first
\* record still in place
C9_Witness ==
    /\ req.op = "upload_resume"
    /\ HasKey(res.value, K_id)
    /\ Len(store) = 2
    /\ store[1].fid = store[2].fid
    /\ store[1].text # store[2].text

\* C10: generate-mcqs and interview on a stored record of any shape end with a
\* result or a structured error, never with an uncaught exception (the model
\* call itself not failing), and what the interview prompt lists was made of
\* strings.
C10_ShapesTolerated ==
    (req.op \in {"generate_resume_mcqs", "interview"} /\ req.found
        /\ req.reply.kind = "text")
        => ~res.raised
====
